---- MODULE Spec2Model ----
(***************************************************************************)
(* Model of poker.cards (src/javascript/common/cards.js): the card codec   *)
(* (fromStringSingle_, toStringSingle_, fromString, toString) and the hand *)
(* evaluator (evalHand, eval5Cards_).                                      *)
(*                                                                         *)
(* A JavaScript string is a sequence of one-character strings.  A          *)
(* JavaScript number that holds a non-negative integer below 2^53 is a     *)
(* little-endian sequence of limbs in base LimbBase with no leading zero   *)
(* limb (53^7 does not fit TLC's 32-bit integers).  A call either returns  *)
(* a value or throws a goog.asserts.AssertionError, told apart by its      *)
(* message.  frame is the running for loop of a call whose digit loop is    *)
(* followed iteration by iteration.                                        *)
(***************************************************************************)
EXTENDS Integers, Sequences, FiniteSets, TLC

VARIABLES call, ret, frame

vars == <<call, ret, frame>>

----------------------------------------------------------------------------
(* Bounds of the model. *)

\* longest well-formed card string handed to fromString / toString, in cards
MaxCards == 7
\* longest arbitrary character string handed to fromString, in characters
MaxChars == 4
\* most base-53 digits of an arbitrary code handed to toString
MaxDigits == 3
\* single-card numbers handed to toStringSingle_ range over 1-Margin .. 52+Margin
Margin == 8
\* negative codes handed to the digit loops range over -MaxNegative .. -1
MaxNegative == 60
\* most iterations of a digit loop that are followed
MaxIters == 9

----------------------------------------------------------------------------
(* Outcomes of a call. *)

Return(v) == [ok |-> TRUE, val |-> v]

Throw(msg) == [ok |-> FALSE, err |-> msg]

\* the value of a variable that was never assigned (no string has this form)
Undefined == <<"undefined">>

\* goog.asserts.assert(cardsStr.length % 2 == 0): no message given
AssertionFailed == "Assertion failed"

UnknownSuit == "Unknown suit"

WrongRank == "Wrong rank"

WrongNumberOfCards == "The number of cards should be 5 to 7"

----------------------------------------------------------------------------
(* JavaScript numbers. *)

LimbBase == 10 ^ 6

RECURSIVE NumOfInt(_)
\* the number whose value is the non-negative integer n
NumOfInt(n) == IF n = 0 THEN << >>
               ELSE <<n % LimbBase>> \o NumOfInt(n \div LimbBase)

RECURSIVE MulAdd(_, _, _)
\* num * m + a   (cardsNum * 53 + card)
MulAdd(num, m, a) ==
  IF num = << >> THEN NumOfInt(a)
  ELSE LET t == Head(num) * m + a
       IN  <<t % LimbBase>> \o MulAdd(Tail(num), m, t \div LimbBase)

RECURSIVE DivMod(_, _)
\* quotient Math.floor(num / d) and remainder num % d of a number >= 0
DivMod(num, d) ==
  IF num = << >> THEN [q |-> << >>, r |-> 0]
  ELSE LET hi  == DivMod(Tail(num), d)
           cur == hi.r * LimbBase + Head(num)
           qd  == cur \div d
       IN  [q |-> IF qd = 0 /\ hi.q = << >> THEN << >> ELSE <<qd>> \o hi.q,
            r |-> cur % d]

\* a % b with JavaScript's sign rule (the sign of the dividend), b > 0
JsRem(a, b) == IF a >= 0 THEN a % b ELSE -((-a) % b)

\* the integer a shift count x / d is truncated to (ToInt32), d > 0
JsTrunc(x, d) == IF x >= 0 THEN x \div d ELSE -((-x) \div d)

----------------------------------------------------------------------------
(* JavaScript strings. *)

\* String(undefined), what "undefined + rank" starts with
UndefinedStr == <<"u", "n", "d", "e", "f", "i", "n", "e", "d">>

\* a + b for operands that are strings or undefined
StrPlus(a, b) == (IF a = Undefined THEN UndefinedStr ELSE a)
                 \o (IF b = Undefined THEN UndefinedStr ELSE b)

DigitChars == <<"0", "1", "2", "3", "4", "5", "6", "7", "8", "9">>

RECURSIVE NatToString(_)
NatToString(n) == IF n < 10 THEN <<DigitChars[n + 1]>>
                  ELSE NatToString(n \div 10) \o <<DigitChars[(n % 10) + 1]>>

\* Number.prototype.toString of an integer
IntToString(n) == IF n < 0 THEN <<"-">> \o NatToString(-n) ELSE NatToString(n)

\* parseInt of a one-character decimal digit
parseInt(ch) == CHOOSE d \in 0..9 : DigitChars[d + 1] = ch

----------------------------------------------------------------------------
(* poker.cards.Suit, poker.cards.Ranks *)

Suit == [SPADE |-> "s", HEART |-> "h", DIAMOND |-> "d", CLUB |-> "c"]

Ranks == (<<"1", "0">> :> "T") @@ (<<"1", "1">> :> "J") @@
         (<<"1", "2">> :> "Q") @@ (<<"1", "3">> :> "K") @@ (<<"1">> :> "A")

----------------------------------------------------------------------------
(* poker.cards.fromStringSingle_ *)

\* fromStringSingle_ that looks at the rank before the suit
fromStringSingle_RankFirst(cardStr) ==
  LET c0 == cardStr[1]
      c1 == cardStr[2]
      suit == CASE c0 = Suit.SPADE   -> 0
                [] c0 = Suit.HEART   -> 1
                [] c0 = Suit.DIAMOND -> 2
                [] c0 = Suit.CLUB    -> 3
                [] OTHER             -> -1
      rank == IF c1 \in {"2", "3", "4", "5", "6", "7", "8", "9"}
              THEN parseInt(c1) - 2
              ELSE CASE c1 = Ranks[<<"1", "0">>] -> 8
                     [] c1 = Ranks[<<"1", "1">>] -> 9
                     [] c1 = Ranks[<<"1", "2">>] -> 10
                     [] c1 = Ranks[<<"1", "3">>] -> 11
                     [] c1 = Ranks[<<"1">>]      -> 12
                     [] OTHER                    -> -1
  IN  IF rank = -1 THEN Throw(WrongRank)
      ELSE IF suit = -1 THEN Throw(UnknownSuit)
      ELSE Return(suit + 4 * rank + 1)

\* fromStringSingle_ with the Ace taken for the lowest rank, as on the card
fromStringSingle_AceLow(cardStr) ==
  LET c0 == cardStr[1]
      c1 == cardStr[2]
      suit == CASE c0 = Suit.SPADE   -> 0
                [] c0 = Suit.HEART   -> 1
                [] c0 = Suit.DIAMOND -> 2
                [] c0 = Suit.CLUB    -> 3
                [] OTHER             -> -1
      rank == IF c1 \in {"2", "3", "4", "5", "6", "7", "8", "9"}
              THEN parseInt(c1) - 1
              ELSE CASE c1 = Ranks[<<"1", "0">>] -> 9
                     [] c1 = Ranks[<<"1", "1">>] -> 10
                     [] c1 = Ranks[<<"1", "2">>] -> 11
                     [] c1 = Ranks[<<"1", "3">>] -> 12
                     [] c1 = Ranks[<<"1">>]      -> 0
                     [] OTHER                    -> -1
  IN  IF suit = -1 THEN Throw(UnknownSuit)
      ELSE IF rank = -1 THEN Throw(WrongRank)
      ELSE Return(suit + 4 * rank + 1)

fromStringSingle_(cardStr) ==
  LET c0 == cardStr[1]
      c1 == cardStr[2]
      suit == CASE c0 = Suit.SPADE   -> 0
                [] c0 = Suit.HEART   -> 1
                [] c0 = Suit.DIAMOND -> 2
                [] c0 = Suit.CLUB    -> 3
                [] OTHER             -> -1
      rank == IF c1 \in {"2", "3", "4", "5", "6", "7", "8", "9"}
              THEN parseInt(c1) - 2
              ELSE CASE c1 = Ranks[<<"1", "0">>] -> 8
                     [] c1 = Ranks[<<"1", "1">>] -> 9
                     [] c1 = Ranks[<<"1", "2">>] -> 10
                     [] c1 = Ranks[<<"1", "3">>] -> 11
                     [] c1 = Ranks[<<"1">>]      -> 12
                     [] OTHER                    -> -1
  IN  IF suit = -1 THEN Throw(UnknownSuit)
      ELSE IF rank = -1 THEN Throw(WrongRank)
      ELSE Return(suit + 4 * rank + 1)

----------------------------------------------------------------------------
(* poker.cards.toStringSingle_ *)

\* toStringSingle_ without the step that turns rank number 14 into 1
toStringSingle_NoAce(cardNum) ==
  LET sw   == JsRem(cardNum - 1, 4)
      suit == CASE sw = 0 -> <<Suit.SPADE>>
                [] sw = 1 -> <<Suit.HEART>>
                [] sw = 2 -> <<Suit.DIAMOND>>
                [] sw = 3 -> <<Suit.CLUB>>
                [] OTHER  -> Undefined
      rankNum == ((cardNum - 1) \div 4) + 2
      rank == IF rankNum >= 2 /\ rankNum <= 9 THEN IntToString(rankNum)
              ELSE IF IntToString(rankNum) \in DOMAIN Ranks
                   THEN <<Ranks[IntToString(rankNum)]>>
                   ELSE Undefined
  IN  IF rank = Undefined THEN Throw(WrongRank)
      ELSE Return(StrPlus(suit, rank))

toStringSingle_(cardNum) ==
  LET sw   == JsRem(cardNum - 1, 4)
      suit == CASE sw = 0 -> <<Suit.SPADE>>
                [] sw = 1 -> <<Suit.HEART>>
                [] sw = 2 -> <<Suit.DIAMOND>>
                [] sw = 3 -> <<Suit.CLUB>>
                [] OTHER  -> Undefined
      rn0  == ((cardNum - 1) \div 4) + 2
      rankNum == IF rn0 = 14 THEN 1 ELSE rn0
      rank == IF rankNum >= 2 /\ rankNum <= 9 THEN IntToString(rankNum)
              ELSE IF IntToString(rankNum) \in DOMAIN Ranks
                   THEN <<Ranks[IntToString(rankNum)]>>
                   ELSE Undefined
  IN  IF rank = Undefined THEN Throw(WrongRank)
      ELSE Return(StrPlus(suit, rank))

----------------------------------------------------------------------------
(* poker.cards.fromString *)

RECURSIVE fromStringLoop(_, _, _)
\* the for loop of fromString from index i (0-based) with accumulator cardsNum
fromStringLoop(cardsStr, i, cardsNum) ==
  IF ~(2 * i < Len(cardsStr)) THEN Return(cardsNum)
  ELSE LET one == fromStringSingle_(SubSeq(cardsStr, 2 * i + 1, 2 * i + 2))
       IN  IF ~one.ok THEN one
           ELSE fromStringLoop(cardsStr, i + 1, MulAdd(cardsNum, 53, one.val))

RECURSIVE fromStringLoop52(_, _, _)
fromStringLoop52(cardsStr, i, cardsNum) ==
  IF ~(2 * i < Len(cardsStr)) THEN Return(cardsNum)
  ELSE LET one == fromStringSingle_(SubSeq(cardsStr, 2 * i + 1, 2 * i + 2))
       IN  IF ~one.ok THEN one
           ELSE fromStringLoop52(cardsStr, i + 1, MulAdd(cardsNum, 52, one.val))

\* fromString with the radix 52, the number of cards, for 53
fromString_Radix52(cardsStr) ==
  IF Len(cardsStr) % 2 # 0 THEN Throw(AssertionFailed)
  ELSE fromStringLoop52(cardsStr, 0, << >>)

fromString(cardsStr) ==
  IF Len(cardsStr) % 2 # 0 THEN Throw(AssertionFailed)
  ELSE fromStringLoop(cardsStr, 0, << >>)

----------------------------------------------------------------------------
(* poker.cards.toString *)

RECURSIVE toStringLoop(_, _)
\* the for loop of toString: strs grows by one pushed string per digit
toStringLoop(cards, strs) ==
  IF cards = << >> THEN Return(strs)
  ELSE LET dm  == DivMod(cards, 53)
           one == toStringSingle_(dm.r)
       IN  IF ~one.ok THEN one
           ELSE toStringLoop(dm.q, Append(strs, one.val))

RECURSIVE Reverse(_)
Reverse(s) == IF s = << >> THEN << >> ELSE Append(Reverse(Tail(s)), Head(s))

RECURSIVE Join(_)
Join(strs) == IF strs = << >> THEN << >> ELSE Head(strs) \o Join(Tail(strs))

\* toString that joins the strings in the order the loop pushed them
toString_NoReverse(cardsNum) ==
  LET r == toStringLoop(cardsNum, << >>)
  IN  IF ~r.ok THEN r ELSE Return(Join(r.val))

toString(cardsNum) ==
  LET r == toStringLoop(cardsNum, << >>)
  IN  IF ~r.ok THEN r ELSE Return(Join(Reverse(r.val)))

----------------------------------------------------------------------------
(* poker.hashtables: the tables are not part of the sources at hand; they  *)
(* are rebuilt from their contract (the reference evaluator's numbering of *)
(* the 7462 hand classes, 1 the strongest).                                *)

RECURSIVE Choose(_, _)
\* binomial coefficient
Choose(n, k) == IF k = 0 THEN 1
                ELSE IF n < k THEN 0
                ELSE Choose(n - 1, k - 1) + Choose(n - 1, k)

RECURSIVE SumOver(_, _)
SumOver(S, f) == IF S = {} THEN 0
                 ELSE LET x == CHOOSE y \in S : TRUE
                      IN  f[x] + SumOver(S \ {x}, f)

\* how many sets of the same size, drawn from the same ground set 0..n-1,
\* are higher than S when compared from the highest element down
HigherSets(S, n) ==
  LET k == Cardinality(S)
      f == [b \in S |-> Choose(b, Cardinality({x \in S : x <= b}))]
  IN  Choose(n, k) - 1 - SumOver(S, f)

\* the position of rank r among the ranks other than those in Out
Skip(r, Out) == r - Cardinality({o \in Out : o < r})

BitsOf(mask) == {i \in 0..12 : (mask \div (2 ^ i)) % 2 = 1}

\* the ten straights by their lowest rank; -1 is the wheel A-2-3-4-5
StraightMasks == [lo \in -1..8 |->
                    IF lo = -1 THEN 2 ^ 12 + 15 ELSE 31 * (2 ^ lo)]

\* UNIQUE5[rankBits]: 1600..1609 for a straight pattern, 6186..7462 for the
\* other patterns of five distinct ranks, 0 (no entry) elsewhere
UNIQUE5 ==
  [mask \in 0..8191 |->
     IF Cardinality(BitsOf(mask)) # 5 THEN 0
     ELSE IF \E lo \in -1..8 : StraightMasks[lo] = mask
          THEN 1608 - (CHOOSE lo \in -1..8 : StraightMasks[lo] = mask)
          ELSE 6186 + HigherSets(BitsOf(mask), 13)
                    - Cardinality({lo \in -1..8 : StraightMasks[lo] > mask})]

RANK_PRIMES == <<2, 3, 5, 7, 11, 13, 17, 19, 23, 29, 31, 37, 41>>

RECURSIVE Exponent(_, _)
\* the exponent of prime p in n >= 1
Exponent(n, p) == IF n % p # 0 THEN 0 ELSE 1 + Exponent(n \div p, p)

\* PAIR[a ^ PAIR_ADJUST[b]] as a function of the prime product the indices a
\* and b are hashed from: the strength of the hand class with that product,
\* 0 where the product is none of a hand with a repeated rank
PairLookup(product) ==
  LET cnt    == [r \in 0..12 |-> Exponent(product, RANK_PRIMES[r + 1])]
      fours  == {r \in 0..12 : cnt[r] = 4}
      threes == {r \in 0..12 : cnt[r] = 3}
      twos   == {r \in 0..12 : cnt[r] = 2}
      ones   == {r \in 0..12 : cnt[r] = 1}
      shape  == <<Cardinality(fours), Cardinality(threes),
                  Cardinality(twos), Cardinality(ones)>>
      one(S)    == CHOOSE r \in S : TRUE
      Rest(Out) == {Skip(r, Out) : r \in ones}
  IN  CASE shape = <<1, 0, 0, 1>> ->
             11 + (12 - one(fours)) * 12 + HigherSets(Rest(fours), 12)
        [] shape = <<0, 1, 1, 0>> ->
             167 + (12 - one(threes)) * 12
                 + HigherSets({Skip(one(twos), threes)}, 12)
        [] shape = <<0, 1, 0, 2>> ->
             1610 + (12 - one(threes)) * 66 + HigherSets(Rest(threes), 12)
        [] shape = <<0, 0, 2, 1>> ->
             2468 + HigherSets(twos, 13) * 11 + HigherSets(Rest(twos), 11)
        [] shape = <<0, 0, 1, 3>> ->
             3326 + (12 - one(twos)) * 220 + HigherSets(Rest(twos), 12)
        [] OTHER -> 0

----------------------------------------------------------------------------
(* poker.cards.eval5Cards_ *)

\* bits | (1 << shift)
BitOr1(bits, shift) == IF (bits \div (2 ^ shift)) % 2 = 1 THEN bits
                       ELSE bits + 2 ^ shift

RECURSIVE rankBitsLoop(_, _, _)
\* for (i = 0; i < 5; ++i) rankBits |= 1 << (cards[i] - 1) / 4
rankBitsLoop(cards, i, rankBits) ==
  IF ~(i < 5) THEN rankBits
  ELSE rankBitsLoop(cards, i + 1,
                    BitOr1(rankBits, JsTrunc(cards[i + 1] - 1, 4)))

\* the flush loop stopping one card early
isFlush_FirstFour(cards) == \A i \in 1..3 : cards[1] % 4 = cards[i + 1] % 4

\* the flush loop: every later card has the suit of the first card
isFlush(cards) == \A i \in 1..4 : cards[1] % 4 = cards[i + 1] % 4

RECURSIVE productLoop(_, _, _)
\* for (i = 0; i < 5; ++i) product *= RANK_PRIMES[Math.floor((cards[i]-1)/4)]
productLoop(cards, i, product) ==
  IF ~(i < 5) THEN product
  ELSE productLoop(cards, i + 1,
                   product * RANK_PRIMES[((cards[i + 1] - 1) \div 4) + 1])

eval5Cards_(cards) ==
  LET rankBits == rankBitsLoop(cards, 0, 0)
      unique5  == UNIQUE5[rankBits]
  IN  IF unique5 # 0
      THEN IF isFlush(cards)
           THEN IF unique5 < 1610 THEN unique5 - 1599 ELSE unique5 - 5863
           ELSE unique5
      ELSE PairLookup(productLoop(cards, 0, 1))

----------------------------------------------------------------------------
(* poker.cards.evalHand *)

\* an argument of type number or string, or an argument that is not given
NumberArg(num) == [type |-> "number", val |-> num]

StringArg(str) == [type |-> "string", val |-> str]

NoArg == [type |-> "undefined", val |-> << >>]

\* typeof x == 'number' ? x : poker.cards.fromString(x)
cardsNumOf(arg) == IF arg.type = "number" THEN Return(arg.val)
                   ELSE fromString(arg.val)

\* if (opt_otherCardsNumOrStr): not undefined, not 0, not ''
isTruthy(arg) == arg.type # "undefined" /\ Len(arg.val) # 0

RECURSIVE pushDigits(_, _)
\* for (...; cardsNum != 0; cardsNum = Math.floor(cardsNum / 53))
\*   allCards.push(cardsNum % 53)
pushDigits(cardsNum, allCards) ==
  IF cardsNum = << >> THEN allCards
  ELSE LET dm == DivMod(cardsNum, 53)
       IN  pushDigits(dm.q, Append(allCards, dm.r))

RECURSIVE keepLoop(_, _, _, _, _)
\* for (k = 0; k < n; ++k) if (k is not omitted) cards.push(allCards[k])
keepLoop(allCards, n, omit, k, cards) ==
  IF ~(k < n) THEN cards
  ELSE keepLoop(allCards, n, omit, k + 1,
                IF k \notin omit THEN Append(cards, allCards[k + 1]) ELSE cards)

RECURSIVE hands6Loop(_, _, _)
\* the hands the 6-card branch scores, in the order it scores them
hands6Loop(allCards, i, hands) ==
  IF ~(i < 6) THEN hands
  ELSE hands6Loop(allCards, i + 1,
                  Append(hands, keepLoop(allCards, 6, {i}, 0, << >>)))

RECURSIVE hands7Loop_ShortOuter(_, _, _, _)
\* the 7-card loops with the outer loop ending at i < 5
hands7Loop_ShortOuter(allCards, i, j, hands) ==
  IF ~(i < 5) THEN hands
  ELSE IF ~(j < 7) THEN hands7Loop_ShortOuter(allCards, i + 1, i + 2, hands)
  ELSE hands7Loop_ShortOuter(allCards, i, j + 1,
                             Append(hands, keepLoop(allCards, 7, {i, j}, 0, << >>)))

RECURSIVE hands7Loop(_, _, _, _)
\* the hands the 7-card branch scores, in the order it scores them
hands7Loop(allCards, i, j, hands) ==
  IF ~(i < 6) THEN hands
  ELSE IF ~(j < 7) THEN hands7Loop(allCards, i + 1, i + 2, hands)
  ELSE hands7Loop(allCards, i, j + 1,
                  Append(hands, keepLoop(allCards, 7, {i, j}, 0, << >>)))

RECURSIVE bestHandLoop(_, _, _)
\* hand = eval5Cards_(cards); if (hand < bestHand) bestHand = hand
bestHandLoop(hands, n, bestHand) ==
  IF n > Len(hands) THEN bestHand
  ELSE LET hand == eval5Cards_(hands[n])
       IN  bestHandLoop(hands, n + 1, IF hand < bestHand THEN hand ELSE bestHand)

\* allCardsOf whose second loop reads the first argument again
allCardsOf_FirstTwice(cardsNumOrStr, opt_otherCardsNumOrStr) ==
  LET first == cardsNumOf(cardsNumOrStr)
  IN  IF ~first.ok THEN first
      ELSE IF ~isTruthy(opt_otherCardsNumOrStr)
           THEN Return(pushDigits(first.val, << >>))
           ELSE Return(pushDigits(first.val, pushDigits(first.val, << >>)))

\* the cards evalHand collects from its arguments, or the failure of fromString
allCardsOf(cardsNumOrStr, opt_otherCardsNumOrStr) ==
  LET first == cardsNumOf(cardsNumOrStr)
  IN  IF ~first.ok THEN first
      ELSE IF ~isTruthy(opt_otherCardsNumOrStr)
           THEN Return(pushDigits(first.val, << >>))
           ELSE LET other == cardsNumOf(opt_otherCardsNumOrStr)
                IN  IF ~other.ok THEN other
                    ELSE Return(pushDigits(other.val,
                                           pushDigits(first.val, << >>)))

\* evalHand whose last branch takes 7 cards and more
evalHand_SevenAndMore(cardsNumOrStr, opt_otherCardsNumOrStr) ==
  LET all == allCardsOf(cardsNumOrStr, opt_otherCardsNumOrStr)
  IN  IF ~all.ok THEN all
      ELSE LET allCards == all.val
           IN  CASE Len(allCards) = 5 -> Return(eval5Cards_(allCards))
                 [] Len(allCards) = 6 ->
                      Return(bestHandLoop(hands6Loop(allCards, 0, << >>), 1, 9999))
                 [] Len(allCards) >= 7 ->
                      Return(bestHandLoop(hands7Loop(allCards, 0, 1, << >>), 1, 9999))
                 [] OTHER -> Throw(WrongNumberOfCards)

evalHand(cardsNumOrStr, opt_otherCardsNumOrStr) ==
  LET all == allCardsOf(cardsNumOrStr, opt_otherCardsNumOrStr)
  IN  IF ~all.ok THEN all
      ELSE LET allCards == all.val
           IN  CASE Len(allCards) = 5 -> Return(eval5Cards_(allCards))
                 [] Len(allCards) = 6 ->
                      Return(bestHandLoop(hands6Loop(allCards, 0, << >>), 1, 9999))
                 [] Len(allCards) = 7 ->
                      Return(bestHandLoop(hands7Loop(allCards, 0, 1, << >>), 1, 9999))
                 [] OTHER -> Throw(WrongNumberOfCards)

----------------------------------------------------------------------------
(* The callers' inputs. *)

SeqsUpTo(S, n) == UNION {[1..k -> S] : k \in 0..n}

SuitChars == {"s", "h", "d", "c"}

RankChars == {"2", "3", "4", "5", "6", "7", "8", "9", "T", "J", "Q", "K", "A"}

\* characters that are neither a suit nor a rank
OtherChars == {"x", "1"}

\* every two-character string over the suits, the ranks and the other characters
TwoCharStrings == [1..2 -> SuitChars \cup RankChars \cup OtherChars]

\* the cards of the longer well-formed strings: 's2', 'hT', 'cA'
PoolCards == {<<"s", "2">>, <<"h", "T">>, <<"c", "A">>}

WellFormedStrings == {Join(cs) : cs \in SeqsUpTo(PoolCards, MaxCards)}

\* short strings of any length over a suit, a rank, both kinds of wrong character
AnyStrings == SeqsUpTo({"s", "c", "2", "A", "x"}, MaxChars)

RECURSIVE NumOfDigits(_, _)
\* the number with the given base-53 digits, most significant first
NumOfDigits(ds, num) == IF ds = << >> THEN num
                        ELSE NumOfDigits(Tail(ds), MulAdd(num, 53, Head(ds)))

\* codes with digits that are cards (1, 27, 52) and digits that are not (0)
AnyCodes == {NumOfDigits(ds, << >>) : ds \in SeqsUpTo({0, 1, 27, 52}, MaxDigits)}

\* sA sK sQ sJ sT cA dA s2: the cards of 'sAsKsQsTsJcAdA' and a low spade
HandPool == {49, 45, 41, 37, 33, 52, 51, 1}

RECURSIVE Ascending(_)
Ascending(S) == IF S = {} THEN << >>
                ELSE LET m == CHOOSE x \in S : \A y \in S : x <= y
                     IN  <<m>> \o Ascending(S \ {m})

\* the card lists handed to evalHand: distinct cards, lowest or highest first
HandLists == UNION {{Ascending(S), Reverse(Ascending(S))} : S \in SUBSET HandPool}

\* a card list written as a string
StringOf(cards) == Join([i \in 1..Len(cards) |-> toStringSingle_(cards[i]).val])

\* a card list as the caller passes it: a string or a composite number
ArgsOf(cards) == {StringArg(StringOf(cards)), NumberArg(NumOfDigits(cards, << >>))}

----------------------------------------------------------------------------
(* The operations, one action per call.  The functions keep no state, so   *)
(* a behaviour is one call from the idle state and its outcome.            *)

\* no loop is running
NoFrame == [pc |-> "none"]

Init == /\ call = [op |-> "none", args |-> << >>]
        /\ ret = Return(<< >>)
        /\ frame = NoFrame

CallFromStringSingle ==
  /\ call.op = "none"
  /\ \E cardStr \in TwoCharStrings :
       /\ call' = [op |-> "fromStringSingle_", args |-> <<cardStr>>]
       /\ ret' = fromStringSingle_(cardStr)
       /\ UNCHANGED frame

CallToStringSingle ==
  /\ call.op = "none"
  /\ \E cardNum \in (1 - Margin)..(52 + Margin) :
       /\ call' = [op |-> "toStringSingle_", args |-> <<cardNum>>]
       /\ ret' = toStringSingle_(cardNum)
       /\ UNCHANGED frame

CallFromString ==
  /\ call.op = "none"
  /\ \E cardsStr \in WellFormedStrings \cup AnyStrings :
       /\ call' = [op |-> "fromString", args |-> <<cardsStr>>]
       /\ ret' = fromString(cardsStr)
       /\ UNCHANGED frame

CallToString ==
  /\ call.op = "none"
  /\ \E cardsNum \in AnyCodes :
       /\ call' = [op |-> "toString", args |-> <<cardsNum>>]
       /\ ret' = toString(cardsNum)
       /\ UNCHANGED frame

CallEvalHand ==
  /\ call.op = "none"
  /\ \E cards \in HandLists :
       \E n \in 0..Len(cards) :
         \E a \in ArgsOf(SubSeq(cards, 1, n)) :
           \E b \in ArgsOf(SubSeq(cards, n + 1, Len(cards)))
                      \cup (IF n = Len(cards) THEN {NoArg} ELSE {}) :
             /\ call' = [op |-> "evalHand", args |-> <<a, b>>]
             /\ ret' = evalHand(a, b)
             /\ UNCHANGED frame

Next == \/ CallFromStringSingle
        \/ CallToStringSingle
        \/ CallFromString
        \/ CallToString
        \/ CallEvalHand

Spec == Init /\ [][Next]_vars

\* the codec alone
NextCodec == \/ CallFromStringSingle
             \/ CallToStringSingle
             \/ CallFromString
             \/ CallToString

SpecCodec == Init /\ [][NextCodec]_vars

\* the evaluator alone
NextEval == CallEvalHand

SpecEval == Init /\ [][NextEval]_vars

----------------------------------------------------------------------------
(* The digit loops of toString and evalHand, one action per iteration, on  *)
(* codes of either sign.  A code is a sign and a magnitude.                *)

Signed(neg, mag) == [neg |-> neg, mag |-> mag]

\* cards != 0
isNonZero(cards) == cards.mag # << >>

\* cards % 53, with the sign of cards
rem53(cards) == IF cards.neg THEN -(DivMod(cards.mag, 53).r)
                ELSE DivMod(cards.mag, 53).r

\* Math.floor(cards / 53): towards minus infinity
floorDiv53(cards) ==
  LET dm == DivMod(cards.mag, 53)
  IN  IF ~cards.neg THEN Signed(FALSE, dm.q)
      ELSE Signed(TRUE, IF dm.r = 0 THEN dm.q ELSE MulAdd(dm.q, 1, 1))

\* what evalHand does with the cards it has collected
scoreAllCards(allCards) ==
  CASE Len(allCards) = 5 -> Return(eval5Cards_(allCards))
    [] Len(allCards) = 6 ->
         Return(bestHandLoop(hands6Loop(allCards, 0, << >>), 1, 9999))
    [] Len(allCards) = 7 ->
         Return(bestHandLoop(hands7Loop(allCards, 0, 1, << >>), 1, 9999))
    [] OTHER -> Throw(WrongNumberOfCards)

\* the codes handed to the loops: negative ones, and for toString the codes of
\* AnyCodes, for evalHand the codes of the hands of HandPool
NegativeCodes == {Signed(TRUE, NumOfInt(m)) : m \in 1..MaxNegative}

ToStringCodes == NegativeCodes \cup {Signed(FALSE, num) : num \in AnyCodes}

EvalHandCodes ==
  NegativeCodes \cup {Signed(FALSE, NumOfDigits(Ascending(S), << >>)) :
                        S \in SUBSET HandPool}

\* toString: var strs = []; for (var cards = cardsNum; ...
EnterToString ==
  /\ call.op = "none"
  /\ \E cardsNum \in ToStringCodes :
       /\ call' = [op |-> "toString.for", args |-> <<cardsNum>>]
       /\ frame' = [pc |-> "toString.for", cards |-> cardsNum, pushed |-> << >>]
  /\ UNCHANGED ret

\* cards != 0: strs.push(toStringSingle_(cards % 53)); cards = floor(cards / 53)
ToStringBody ==
  /\ frame.pc = "toString.for"
  /\ isNonZero(frame.cards)
  /\ Len(frame.pushed) < MaxIters
  /\ LET one == toStringSingle_(rem53(frame.cards))
     IN  IF ~one.ok
         THEN /\ ret' = one
              /\ frame' = [frame EXCEPT !.pc = "done"]
         ELSE /\ frame' = [frame EXCEPT !.cards = floorDiv53(frame.cards),
                                        !.pushed = Append(frame.pushed, one.val)]
              /\ UNCHANGED ret
  /\ UNCHANGED call

\* cards == 0: return strs.reverse().join('')
ToStringExit ==
  /\ frame.pc = "toString.for"
  /\ ~isNonZero(frame.cards)
  /\ ret' = Return(Join(Reverse(frame.pushed)))
  /\ frame' = [frame EXCEPT !.pc = "done"]
  /\ UNCHANGED call

\* evalHand with one argument, a number: var allCards = []; for (var cardsNum ...
EnterEvalHand ==
  /\ call.op = "none"
  /\ \E cardsNum \in EvalHandCodes :
       /\ call' = [op |-> "evalHand.for", args |-> <<cardsNum>>]
       /\ frame' = [pc |-> "evalHand.for", cards |-> cardsNum, pushed |-> << >>]
  /\ UNCHANGED ret

\* cardsNum != 0: allCards.push(cardsNum % 53); cardsNum = floor(cardsNum / 53)
EvalHandBody ==
  /\ frame.pc = "evalHand.for"
  /\ isNonZero(frame.cards)
  /\ Len(frame.pushed) < MaxIters
  /\ frame' = [frame EXCEPT !.cards = floorDiv53(frame.cards),
                            !.pushed = Append(frame.pushed, rem53(frame.cards))]
  /\ UNCHANGED <<call, ret>>

\* cardsNum == 0: the loop is left and the collected cards are scored
EvalHandExit ==
  /\ frame.pc = "evalHand.for"
  /\ ~isNonZero(frame.cards)
  /\ ret' = scoreAllCards(frame.pushed)
  /\ frame' = [frame EXCEPT !.pc = "done"]
  /\ UNCHANGED call

NextLoop == \/ EnterToString
            \/ ToStringBody
            \/ ToStringExit
            \/ EnterEvalHand
            \/ EvalHandBody
            \/ EvalHandExit

SpecLoop == Init /\ [][NextLoop]_vars

----------------------------------------------------------------------------
(* What the claims speak of, stated apart from the code. *)

SuitOrder == <<"s", "h", "d", "c">>

RankOrder == <<"2", "3", "4", "5", "6", "7", "8", "9", "T", "J", "Q", "K", "A">>

\* suit_index: 0 = s, 1 = h, 2 = d, 3 = c
SuitIndex(ch) == (CHOOSE i \in 1..4 : SuitOrder[i] = ch) - 1

\* rank_index: 0 = '2' up to 12 = 'A'
RankIndex(ch) == (CHOOSE i \in 1..13 : RankOrder[i] = ch) - 1

\* the 52 valid two-character card strings
ValidCardStrings == {<<su, ra>> : su \in SuitChars, ra \in RankChars}

\* a concatenation of valid two-character cards
IsCardString(str) ==
  /\ Len(str) % 2 = 0
  /\ \A i \in 1..(Len(str) \div 2) : SubSeq(str, 2 * i - 1, 2 * i) \in ValidCardStrings

\* the card numbers a card string lists, left to right
CardNumbersOf(str) ==
  [i \in 1..(Len(str) \div 2) |->
     SuitIndex(str[2 * i - 1]) + 4 * RankIndex(str[2 * i]) + 1]

----------------------------------------------------------------------------
\* C1: a single card survives the round trip in both directions:
\* fromStringSingle_(toStringSingle_(n)) = n for every n in 1..52, and
\* toStringSingle_(fromStringSingle_(s)) = s for each of the 52 valid strings s.
C1_SingleRoundTrip ==
  /\ (call.op = "toStringSingle_" /\ call.args[1] \in 1..52) =>
       /\ ret.ok
       /\ fromStringSingle_(ret.val) = Return(call.args[1])
  /\ (call.op = "fromStringSingle_" /\ call.args[1] \in ValidCardStrings) =>
       /\ ret.ok
       /\ toStringSingle_(ret.val) = Return(call.args[1])

\* 49 was encoded as 'sA', which decodes back to 49
C1_Witness ==
  /\ call.op = "toStringSingle_"
  /\ call.args[1] = 49
  /\ ret = Return(<<"s", "A">>)
  /\ fromStringSingle_(ret.val) = Return(49)

\* C2: a valid card string decodes to suit_index + 4 * rank_index + 1 (Ace the
\* highest rank), a number in 1..52 that no other valid string decodes to;
\* every number in 1..52 is the image of a valid string; 's2' is 1, 'sA' is 49
\* and 'cA' is 52.
C2_CardNumbering ==
  /\ (call.op = "fromStringSingle_" /\ call.args[1] \in ValidCardStrings) =>
       LET str == call.args[1]
       IN  /\ ret = Return(SuitIndex(str[1]) + 4 * RankIndex(str[2]) + 1)
           /\ ret.val \in 1..52
           /\ \A other \in ValidCardStrings \ {str} :
                fromStringSingle_(other) # ret
           /\ str = <<"s", "2">> => ret.val = 1
           /\ str = <<"s", "A">> => ret.val = 49
           /\ str = <<"c", "A">> => ret.val = 52
  /\ (call.op = "toStringSingle_" /\ call.args[1] \in 1..52) =>
       Cardinality({str \in ValidCardStrings :
                      fromStringSingle_(str) = Return(call.args[1])}) = 1

\* 'cA' was decoded to 52
C2_Witness ==
  /\ call.op = "fromStringSingle_"
  /\ call.args[1] = <<"c", "A">>
  /\ ret = Return(52)

\* C3: a string of 1 to 7 valid cards survives decoding and encoding, card by
\* card in the original order, and so decoding the re-encoded string gives the
\* same code again.
C3_SequenceRoundTrip ==
  (/\ call.op = "fromString"
   /\ IsCardString(call.args[1])
   /\ Len(call.args[1]) \div 2 \in 1..7) =>
     /\ ret.ok
     /\ toString(ret.val) = Return(call.args[1])
     /\ fromString(toString(ret.val).val) = ret

\* seven cards, not all alike, were decoded and encode back to themselves
C3_Witness ==
  /\ call.op = "fromString"
  /\ call.args[1] = <<"s", "2", "c", "A", "h", "T", "h", "T", "c", "A", "s", "2", "s", "2">>
  /\ ret.ok
  /\ toString(ret.val) = Return(call.args[1])

\* the well-formed strings of at most three pool cards, as rivals for a code
C4_Rivals == {Join(cs) : cs \in SeqsUpTo(PoolCards, Cardinality(PoolCards))}

----------------------------------------------------------------------------
(* The evaluator's claims. *)

Range(seq) == {seq[i] : i \in 1..Len(seq)}

\* the cards an argument of evalHand stands for, left to right
CardsOfArg(arg) == CASE arg.type = "string" -> CardNumbersOf(arg.val)
                     [] arg.type = "number" -> Reverse(pushDigits(arg.val, << >>))
                     [] OTHER               -> << >>

\* the cards of the call at hand: the first argument's, then the second's
GivenCards == CardsOfArg(call.args[1]) \o CardsOfArg(call.args[2])

FiveOf(cards) == {S \in SUBSET Range(cards) : Cardinality(S) = 5}

\* the 5-card score of a set of five cards
ScoreOf(S) == eval5Cards_(Ascending(S))

\* C5: with 6 or 7 cards evalHand scores each set of five of them exactly
\* once (6 hands, 21 hands) and, the scores being in 1..7462, returns the
\* least of them; seven cards that hold a hand of strength 1 evaluate to 1.
C5_BestOfFive ==
  (call.op = "evalHand" /\ Len(GivenCards) \in {6, 7}) =>
    LET allCards == allCardsOf(call.args[1], call.args[2]).val
        scored   == IF Len(allCards) = 6 THEN hands6Loop(allCards, 0, << >>)
                    ELSE hands7Loop(allCards, 0, 1, << >>)
        fives    == FiveOf(GivenCards)
        score    == [S \in fives |-> ScoreOf(S)]
    IN  /\ ret.ok
        /\ Len(scored) = IF Len(GivenCards) = 6 THEN 6 ELSE 21
        /\ \A n \in 1..Len(scored) : Len(scored[n]) = 5
        /\ {Range(scored[n]) : n \in 1..Len(scored)} = fives
        /\ (\A S \in fives : score[S] \in 1..7462) =>
             /\ \E S \in fives : ret.val = score[S]
             /\ \A S \in fives : ret.val <= score[S]
        /\ (\E S \in fives : score[S] = 1) => ret.val = 1

\* the royal flush in spades with two more Aces, seven cards, evaluates to 1
C5_Witness ==
  /\ call.op = "evalHand"
  /\ Len(GivenCards) = 7
  /\ Range(GivenCards) = {33, 37, 41, 45, 49, 51, 52}
  /\ ret = Return(1)

\* C6: evalHand(a, b) is evalHand of the concatenation of a and b, and of the
\* same cards in the opposite order.
C6_TwoArgumentsConcatenate ==
  (call.op = "evalHand" /\ Len(GivenCards) \in 5..7) =>
    /\ ret.ok
    /\ ret = evalHand(StringArg(StringOf(GivenCards)), NoArg)
    /\ ret = evalHand(NumberArg(NumOfDigits(Reverse(GivenCards), << >>)), NoArg)

\* a two-card string and a five-card number were evaluated together
C6_Witness ==
  /\ call.op = "evalHand"
  /\ call.args[1].type = "string"
  /\ call.args[2].type = "number"
  /\ Len(CardsOfArg(call.args[1])) = 2
  /\ Len(CardsOfArg(call.args[2])) = 5
  /\ ret.ok

\* C7: evalHand fails when its arguments hold fewer than 5 or more than 7
\* cards; it returns a strength only for 5, 6 or 7 cards.
C7_OnlyFiveToSeven ==
  call.op = "evalHand" =>
    /\ Len(GivenCards) \notin 5..7 => ret = Throw(WrongNumberOfCards)
    /\ ret.ok => Len(GivenCards) \in 5..7

\* eight cards in two arguments were refused
C7_Witness ==
  /\ call.op = "evalHand"
  /\ Len(GivenCards) = 8
  /\ Len(CardsOfArg(call.args[2])) = 3
  /\ ret = Throw(WrongNumberOfCards)

\* C8: toStringSingle_ fails for every number outside 1..52, 0 included, so
\* toString returns nothing but concatenations of valid cards.
C8_OutOfRangeFails ==
  /\ (call.op = "toStringSingle_" /\ call.args[1] \notin 1..52) => ~ret.ok
  /\ (call.op = "toString" /\ ret.ok) => IsCardString(ret.val)

\* the first chunk of an even-length string that is no valid card, 0 if none
FirstBadChunk(str) ==
  LET bad == {i \in 1..(Len(str) \div 2) :
                SubSeq(str, 2 * i - 1, 2 * i) \notin ValidCardStrings}
  IN  IF bad = {} THEN 0 ELSE CHOOSE i \in bad : \A j \in bad : i <= j

\* C9 as stated: fromString returns only for card strings, fails with the
\* length error on every odd-length string, with the suit error when some
\* chunk's first character is no suit and with the rank error when some
\* chunk's second character is no rank.
C9_ErrorPerDefect ==
  call.op = "fromString" =>
    LET str    == call.args[1]
        even   == Len(str) % 2 = 0
        chunks == 1..(Len(str) \div 2)
    IN  /\ ret.ok => IsCardString(str)
        /\ ~even => ret = Throw(AssertionFailed)
        /\ (even /\ \E i \in chunks : str[2 * i - 1] \notin SuitChars) =>
             ret = Throw(UnknownSuit)
        /\ (even /\ \E i \in chunks : str[2 * i] \notin RankChars) =>
             ret = Throw(WrongRank)

\* C9 amended: fromString returns exactly for card strings; it fails with the
\* length error on every odd-length string, and on an even-length string with
\* the error of the first chunk that is no valid card: the suit error if that
\* chunk's first character is no suit, the rank error otherwise.
C9_FirstDefectDecides ==
  call.op = "fromString" =>
    LET str == call.args[1]
        i   == FirstBadChunk(str)
    IN  /\ ret.ok <=> IsCardString(str)
        /\ Len(str) % 2 # 0 => ret = Throw(AssertionFailed)
        /\ (Len(str) % 2 = 0 /\ i # 0) =>
             ret = IF str[2 * i - 1] \notin SuitChars THEN Throw(UnknownSuit)
                   ELSE Throw(WrongRank)

\* 'sxx2' failed on the rank of its first chunk, not on the suit of its second
C9_Witness ==
  /\ call.op = "fromString"
  /\ call.args[1] = <<"s", "x", "x", "2">>
  /\ ret = Throw(WrongRank)

\* C10: for five cards whose rank pattern has an entry v in UNIQUE5, the mask
\* having bit floor((card-1)/4) set for each card, the score is v - 1599 when
\* all five have the same (card-1) mod 4 and v < 1610, v - 5863 when they have
\* and v >= 1610, and v when they have not.
C10_ScoreFive ==
  (call.op = "evalHand" /\ Len(GivenCards) = 5) =>
    LET ranks == {(c - 1) \div 4 : c \in Range(GivenCards)}
        mask  == SumOver(ranks, [i \in ranks |-> 2 ^ i])
        v     == UNIQUE5[mask]
        flush == Cardinality({(c - 1) % 4 : c \in Range(GivenCards)}) = 1
    IN  v # 0 =>
          ret = Return(IF flush THEN (IF v < 1610 THEN v - 1599 ELSE v - 5863)
                       ELSE v)

\* sA sK sQ sJ s2, a flush that is no straight, scored between 323 and 1599
C10_Witness ==
  /\ call.op = "evalHand"
  /\ Range(GivenCards) = {1, 37, 41, 45, 49}
  /\ Len(GivenCards) = 5
  /\ ret.ok
  /\ ret.val = UNIQUE5[2 ^ 12 + 2 ^ 11 + 2 ^ 10 + 2 ^ 9 + 1] - 5863
  /\ ret.val \in 323..1599

----------------------------------------------------------------------------
\* C11: the digit loop of toString and of evalHand never runs more often than
\* the code has base-53 digits, has run exactly once per digit when the call
\* returns, and for a negative code does not run at all: the call fails in
\* its first iteration.
C11_LoopEndsAtOnce ==
  frame.pc # "none" =>
    LET code   == call.args[1]
        digits == Len(pushDigits(code.mag, << >>))
    IN  /\ ~code.neg => Len(frame.pushed) <= digits
        /\ (~code.neg /\ frame.pc = "done") => Len(frame.pushed) = digits
        /\ code.neg => Len(frame.pushed) = 0
        /\ (code.neg /\ frame.pc = "done") => ~ret.ok

====
